---- MODULE Spec2Model ----
(***************************************************************************)
(* nymcat: a single-room chat coordinator over an anonymous transport.     *)
(*                                                                         *)
(* The module models the three room servers of the repository:             *)
(*   - the queue-based room server of src/simple.rs (run_room_server):     *)
(*     event dispatcher, spawned enqueue tasks, bounded delivery queue,    *)
(*     delivery worker and pruning task (specification Spec);              *)
(*   - the history buffers of src/simple.rs and src/room_server.rs         *)
(*     (specification HistSpec);                                           *)
(*   - the room server of src/main.rs, create mode (specification          *)
(*     MainSpec);                                                          *)
(*   - RoomState::prune_inactive_participants of src/simple.rs on          *)
(*     arbitrary registries (specification SweepSpec), and a whole round   *)
(*     of the pruning task (specification PruneSpec);                      *)
(*   - the on_messages callback of src/simple.rs on one event              *)
(*     (specification HandlerSpec), and both callbacks on an inbound       *)
(*     StateSync (specification InboundSyncSpec).                          *)
(*                                                                         *)
(* Time is counted in abstract clock units.  The capacities and the time   *)
(* thresholds of the source are scaled down so that full queues, full      *)
(* histories, stale deliveries and timed-out participants are reached      *)
(* within the explored depth; each scaled value names its source value.    *)
(***************************************************************************)
EXTENDS Integers, Sequences, FiniteSets, Bags, TLC

----------------------------------------------------------------------------
(* Capacities and thresholds of the source, scaled.                        *)

\* simple.rs:27  MAX_QUEUE_SIZE = 1000, the capacity of the mpsc channel.
MAX_QUEUE_SIZE == 2

\* simple.rs:18  MAX_HISTORY_SIZE = 100.
MAX_HISTORY_SIZE == 2

\* room_server.rs:13  MAX_HISTORY_ITEMS = 100.
MAX_HISTORY_ITEMS == 2

\* simple.rs:21  PARTICIPANT_TIMEOUT_SECS = 300.
PARTICIPANT_TIMEOUT_SECS == 2

\* simple.rs:185  Duration::from_secs(30), the age after which a queued
\* message is skipped.
STALE_AFTER_SECS == 1

(* Bounds of the exploration.                                              *)

\* The clock stops advancing at MaxTime.
MaxTime == 2

\* Inbound transport events the dispatcher is called with in one behaviour.
MaxEvents == 2

\* Appends explored on a history buffer (HistSpec).
MaxAppends == 4

\* Texts explored in the main.rs room (MainSpec).
MaxMainTexts == 3

\* Messages read from the connections of the TCP room in one behaviour
\* (TcpSpec).
MaxTcpReads == 3

----------------------------------------------------------------------------
(* Values.                                                                 *)

Users == {"alice", "bob"}

\* AnonymousSenderTag values; NoTag is Option::None of msg.sender_tag.
Tags == {"hA", "hB"}
NoTag == "none"

Contents == {"hi", "yo"}

\* Text.timestamp is a client-supplied u64; one value is enough to carry it.
Stamps == {"t1"}

\* A history item that does not keep the name of its author.
HistoryItem_anon(from, content, timestamp) ==
    [from |-> "nobody", content |-> content, timestamp |-> timestamp]

\* common.rs: struct HistoryItem
HistoryItem(from, content, timestamp) ==
    [from |-> from, content |-> content, timestamp |-> timestamp]

HistoryItems == [from : Users, content : Contents, timestamp : Stamps]

\* common.rs: enum ChatMessage
Join(username) == [kind |-> "Join", username |-> username]
Leave(username) == [kind |-> "Leave", username |-> username]
Text(from, content, timestamp) ==
    [kind |-> "Text", from |-> from, content |-> content, timestamp |-> timestamp]
StateSync(hist, names) ==
    [kind |-> "StateSync", history |-> hist, participants |-> names]

\* Bytes that serde_json::from_slice rejects.
Unparseable == [kind |-> "Unparseable"]

\* serde_json::from_slice::<ChatMessage>(&msg.message) succeeds.
Parses(payload) == payload.kind \in {"Join", "Leave", "Text", "StateSync"}

\* The username an event is attributed to.
Subject(payload) ==
    CASE payload.kind \in {"Join", "Leave"} -> payload.username
      [] payload.kind = "Text" -> payload.from
      [] OTHER -> "nobody"

\* simple.rs: struct Participant
Participant(username, tag, at) ==
    [username |-> username, sender_tag |-> tag, last_active |-> at]

\* simple.rs: struct QueuedMessage
QueuedMessage(message, recipient, priority, at) ==
    [message |-> message, recipient |-> recipient,
     priority |-> priority, timestamp |-> at]

\* All orders in which the elements of a set can be iterated (a HashMap
\* promises none).
Orderings(S) ==
    {s \in [1..Cardinality(S) -> S] :
        \A i, j \in 1..Cardinality(S) : i # j => s[i] # s[j]}

Range(s) == {s[i] : i \in 1..Len(s)}

----------------------------------------------------------------------------
(* Inbound events offered to the queue-based room server.                  *)

InboundPayloads ==
    {Join(u) : u \in Users} \cup {Leave(u) : u \in Users}
    \cup {Text(u, "hi", "t1") : u \in Users}
    \cup {StateSync(<<>>, <<>>), Unparseable}

Inbound == [payload : InboundPayloads, sender_tag : Tags \cup {NoTag}]

NoMsg == [payload |-> [kind |-> "None"], sender_tag |-> NoTag]
NoEntry == [username |-> "nobody"]

----------------------------------------------------------------------------
VARIABLES
    now,              \* the clock (Instant::now / SystemTime::now)
    participants,     \* simple.rs RoomState.participants
    history,          \* simple.rs RoomState.history
    message_count,    \* simple.rs RoomState.message_count
    broadcast_count,  \* simple.rs RoomState.broadcast_count
    queue,            \* the buffer of mpsc::channel(MAX_QUEUE_SIZE)
    spawned,          \* bag of spawned enqueue tasks not yet polled
    waiting,          \* senders waiting for a free slot of the channel, FIFO
    disp,             \* position of the on_messages callback, the inbound
                      \* event it was called with last, and what its lookup
                      \* of the event's username in the registry returned
    prune,            \* position and locals of the pruning task
    worker,           \* position of the message processor task, the message
                      \* it received last and the age it found it to have
    events,           \* number of inbound events received so far
    tcp_history,      \* room_server.rs RoomState.history
    appended,         \* log: every item passed to add_history_item
    m_participants,   \* main.rs RoomState.participants
    m_history,        \* main.rs RoomState.history
    m_out,            \* main.rs: which task of the room ran last and the
                      \* transport sends it issued
    lock,             \* simple.rs: the task that holds the guard of the
                      \* Mutex<RoomState>, "free" when none does
    tcp               \* room_server.rs: RoomState.participants and
                      \* .connections, and per connection the channel to its
                      \* writer task and the positions of its two tasks

vars == <<now, participants, history, message_count, broadcast_count, queue,
          spawned, waiting, disp, prune, worker, events,
          tcp_history, appended, m_participants, m_history, m_out, lock,
          tcp>>

roomVars == <<participants, history, message_count, broadcast_count>>
chanVars == <<queue, spawned, waiting>>
otherVars == <<events, tcp_history, appended, m_participants, m_history,
               m_out, tcp>>

EmptyMap == [u \in {} |-> NoEntry]

PruneIdle == [pc |-> "idle", pruned |-> <<>>, recipients |-> <<>>]
WorkerIdle == [pc |-> "recv", msg |-> NoMsg, age |-> 0, result |-> "none"]
DispIdle == [pc |-> "idle", msg |-> NoMsg, old |-> NoEntry]
MainIdle == [by |-> "none", sends |-> {}]

\* room_server.rs: the connections the listener can accept.
TcpConns == {"c1", "c2"}

\* room_server.rs:27-33  RoomState::new, and no connection accepted yet.
TcpIdle ==
    [participants |-> [u \in {} |-> "none"],
     connections  |-> {},
     inbox        |-> [c \in TcpConns |-> <<>>],
     reader       |-> [c \in TcpConns |-> "none"],
     writer       |-> [c \in TcpConns |-> "none"],
     reads        |-> 0]

\* RoomState::new and the state of run_room_server before the first event.
Init ==
    /\ now = 0
    /\ participants = EmptyMap
    /\ history = <<>>
    /\ message_count = 0
    /\ broadcast_count = 0
    /\ queue = <<>>
    /\ spawned = EmptyBag
    /\ waiting = <<>>
    /\ disp = DispIdle
    /\ prune = PruneIdle
    /\ worker = WorkerIdle
    /\ events = 0
    /\ tcp_history = <<>>
    /\ appended = <<>>
    /\ m_participants = EmptyMap
    /\ m_history = <<>>
    /\ m_out = MainIdle
    /\ lock = "free"
    /\ tcp = TcpIdle

----------------------------------------------------------------------------
(* RoomState of simple.rs.                                                 *)

\* A map insert that keeps the entry a key already has.
HashMapInsert_keep(map, key, value) ==
    IF key \in DOMAIN map
    THEN map
    ELSE [k \in DOMAIN map \cup {key} |-> IF k = key THEN value ELSE map[k]]

\* HashMap::insert: the entry of the key is replaced.
HashMapInsert(map, key, value) ==
    [k \in DOMAIN map \cup {key} |-> IF k = key THEN value ELSE map[k]]

\* A map removal that removes nothing.
HashMapRemove_noop(map, key) == map

\* HashMap::remove: no effect when the key is absent.
HashMapRemove(map, key) ==
    [k \in DOMAIN map \ {key} |-> map[k]]

\* A refresh that registers an author the registry does not hold.
Touch_upsert(map, from, at) ==
    [k \in DOMAIN map \cup {from} |->
        IF k = from
        THEN IF from \in DOMAIN map
             THEN [map[from] EXCEPT !.last_active = at]
             ELSE Participant(from, NoTag, at)
        ELSE map[k]]

\* simple.rs:363-368  last_active is refreshed if the participant exists.
Touch(map, from, at) ==
    IF from \in DOMAIN map
    THEN [map EXCEPT ![from] = [@ EXCEPT !.last_active = at]]
    ELSE map

\* A history append that evicts one item too early.
add_history_item_early(hist, item) ==
    LET pushed == Append(hist, item)
    IN  IF Len(pushed) >= MAX_HISTORY_SIZE THEN Tail(pushed) ELSE pushed

\* simple.rs:70-75  push_back, then pop_front when over MAX_HISTORY_SIZE.
add_history_item(hist, item) ==
    LET pushed == Append(hist, item)
    IN  IF Len(pushed) > MAX_HISTORY_SIZE THEN Tail(pushed) ELSE pushed

\* room_server.rs:35-40  push, then remove(0) when over MAX_HISTORY_ITEMS.
tcp_add_history_item(hist, item) ==
    LET pushed == Append(hist, item)
    IN  IF Len(pushed) > MAX_HISTORY_ITEMS THEN Tail(pushed) ELSE pushed

\* An activity test that keeps a participant for one clock unit too long.
is_active_late(p, at) ==
    IF at >= p.last_active
    THEN at - p.last_active <= PARTICIPANT_TIMEOUT_SECS
    ELSE TRUE

\* simple.rs:84-87  duration_since fails when last_active is after now, and
\* the participant is kept.
is_active(p, at) ==
    IF at >= p.last_active
    THEN at - p.last_active < PARTICIPANT_TIMEOUT_SECS
    ELSE TRUE

\* simple.rs:77-97  retain the active participants, return the others.
prune_inactive_participants(map, at) ==
    LET gone == {u \in DOMAIN map : ~is_active(map[u], at)}
    IN  [kept |-> [u \in DOMAIN map \ gone |-> map[u]], pruned |-> gone]

\* A recipient selection that skips nobody.
Others_all(map, skip_username) == DOMAIN map

\* simple.rs:442-445  the participants whose username is not skip_username.
Others(map, skip_username) ==
    {k \in DOMAIN map : map[k].username # skip_username}

\* One enqueue task per selected participant, addressed to its sender_tag.
Fanout(map, keys, message, priority) ==
    LET tags == {map[k].sender_tag : k \in keys}
        Task(t) == [message |-> message, recipient |-> t, priority |-> priority]
    IN  [x \in {Task(t) : t \in tags} |->
            Cardinality({k \in keys : map[k].sender_tag = x.recipient})]

\* A broadcast that reaches nobody.
broadcast_to_nobody(map, message, skip_username, priority) == EmptyBag

\* simple.rs:431-472  broadcast_to_participants: the tasks it spawns.
broadcast_to_participants(map, message, skip_username, priority) ==
    Fanout(map, Others(map, skip_username), message, priority)

\* A sender-tag check that accepts an envelope without a tag.
Usable_any(tag) == TRUE

\* simple.rs:268-274  the envelope carries a sender tag.
Usable(tag) == tag # NoTag

\* A dispatcher that passes every broadcast on as Low.
ArmPriority_low(payload) == "Low"

\* The priority each arm of the dispatcher passes to the broadcast.
ArmPriority(payload) ==
    IF payload.kind = "Text" THEN "Low" ELSE "High"

----------------------------------------------------------------------------
(* The on_messages callback of run_room_server (simple.rs:255-398).  It    *)
(* takes the state lock once per block; other tasks can run in between.    *)

\* What HashMap::insert, remove and get_mut return for a key: its entry
\* before the call, if any.
Lookup(map, key) == IF key \in DOMAIN map THEN map[key] ELSE NoEntry

\* A state sync that leaves the history out.
Snapshot_nohistory(hist, map) ==
    {StateSync(<<>>, [i \in 1..Len(names) |-> map[names[i]].username])
        : names \in Orderings(DOMAIN map)}

\* simple.rs:295-307  the StateSync built from the history and from the
\* usernames of participants.values(), in any iteration order.
Snapshot(hist, map) ==
    {StateSync(hist, [i \in 1..Len(names) |-> map[names[i]].username])
        : names \in Orderings(DOMAIN map)}

\* A callback that counts every inbound event and handles none.
DispReceive_counting(m) ==
    /\ disp.pc = "idle"
    /\ events < MaxEvents
    /\ events' = events + 1
    /\ message_count' = message_count + 1
    /\ disp' = [pc |-> "idle", msg |-> m, old |-> NoEntry]
    /\ UNCHANGED <<now, lock, tcp, participants, history, broadcast_count, chanVars,
                   prune, worker, tcp_history, appended, m_participants,
                   m_history, m_out>>

\* A callback whose Leave arm removes the entry only when the Leave comes
\* with the sender tag the entry holds.
DispReceive_owner(m) ==
    /\ disp.pc = "idle"
    /\ events < MaxEvents
    /\ events' = events + 1
    /\ IF ~Parses(m.payload) \/ ~Usable(m.sender_tag)
          \/ m.payload.kind = "StateSync"
       THEN /\ disp' = [pc |-> "idle", msg |-> m, old |-> NoEntry]
            /\ UNCHANGED <<participants, message_count>>
       ELSE CASE m.payload.kind = "Join" ->
                  /\ participants' = HashMapInsert(participants,
                          m.payload.username,
                          Participant(m.payload.username, m.sender_tag, now))
                  /\ message_count' = message_count + 1
                  /\ disp' = [pc |-> "join_sync", msg |-> m,
                              old |-> Lookup(participants, m.payload.username)]
              [] m.payload.kind = "Leave" ->
                  /\ participants' =
                        IF /\ m.payload.username \in DOMAIN participants
                           /\ participants[m.payload.username].sender_tag
                                 = m.sender_tag
                        THEN HashMapRemove(participants, m.payload.username)
                        ELSE participants
                  /\ message_count' = message_count + 1
                  /\ disp' = [pc |-> "broadcast", msg |-> m,
                              old |-> Lookup(participants, m.payload.username)]
              [] m.payload.kind = "Text" ->
                  /\ participants' = Touch(participants, m.payload.from, now)
                  /\ UNCHANGED message_count
                  /\ disp' = [pc |-> "text_store", msg |-> m,
                              old |-> Lookup(participants, m.payload.from)]
    /\ UNCHANGED <<now, lock, tcp, history, broadcast_count, chanVars, prune,
                   worker, tcp_history, appended, m_participants, m_history,
                   m_out>>

\* Parse, sender-tag check and the first locked block of the matching arm.
DispReceive(m) ==
    /\ disp.pc = "idle"
    /\ events < MaxEvents
    /\ events' = events + 1
    /\ IF ~Parses(m.payload) \/ ~Usable(m.sender_tag)
          \/ m.payload.kind = "StateSync"
       THEN /\ disp' = [pc |-> "idle", msg |-> m, old |-> NoEntry]
            /\ UNCHANGED <<participants, message_count>>
       ELSE CASE m.payload.kind = "Join" ->
                  /\ participants' = HashMapInsert(participants,
                          m.payload.username,
                          Participant(m.payload.username, m.sender_tag, now))
                  /\ message_count' = message_count + 1
                  /\ disp' = [pc |-> "join_sync", msg |-> m,
                              old |-> Lookup(participants, m.payload.username)]
              [] m.payload.kind = "Leave" ->
                  /\ participants' = HashMapRemove(participants,
                                                   m.payload.username)
                  /\ message_count' = message_count + 1
                  /\ disp' = [pc |-> "broadcast", msg |-> m,
                              old |-> Lookup(participants, m.payload.username)]
              [] m.payload.kind = "Text" ->
                  /\ participants' = Touch(participants, m.payload.from, now)
                  /\ UNCHANGED message_count
                  /\ disp' = [pc |-> "text_store", msg |-> m,
                              old |-> Lookup(participants, m.payload.from)]
    /\ UNCHANGED <<now, lock, tcp, history, broadcast_count, chanVars, prune, worker,
                   tcp_history, appended, m_participants, m_history, m_out>>

\* simple.rs:294-321  snapshot history and participants, spawn the task that
\* enqueues the StateSync for the joiner.
DispJoinSync ==
    /\ disp.pc = "join_sync"
    /\ \E sync \in Snapshot(history, participants) :
         LET task == [message |-> sync, recipient |-> disp.msg.sender_tag,
                      priority |-> "Medium"]
         IN  spawned' = spawned (+) SetToBag({task})
    /\ disp' = [disp EXCEPT !.pc = "broadcast"]
    /\ UNCHANGED <<now, lock, roomVars, queue, waiting, prune, worker,
                   otherVars>>

\* A store step that keeps only the texts of registered authors.
DispTextStore_members ==
    /\ disp.pc = "text_store"
    /\ history' = IF disp.old = NoEntry
                  THEN history
                  ELSE add_history_item(history,
                           HistoryItem(disp.msg.payload.from,
                                       disp.msg.payload.content,
                                       disp.msg.payload.timestamp))
    /\ message_count' = message_count + 1
    /\ disp' = [disp EXCEPT !.pc = "broadcast"]
    /\ UNCHANGED <<now, lock, participants, broadcast_count, chanVars, prune,
                   worker, otherVars>>

\* simple.rs:370-380  store the text in the history.
DispTextStore ==
    /\ disp.pc = "text_store"
    /\ history' = add_history_item(history,
                      HistoryItem(disp.msg.payload.from,
                                  disp.msg.payload.content,
                                  disp.msg.payload.timestamp))
    /\ message_count' = message_count + 1
    /\ disp' = [disp EXCEPT !.pc = "broadcast"]
    /\ UNCHANGED <<now, lock, participants, broadcast_count, chanVars, prune,
                   worker, otherVars>>

\* The call of broadcast_to_participants that ends the Join, Leave and Text
\* arms.
DispBroadcast ==
    /\ disp.pc = "broadcast"
    /\ spawned' = spawned (+)
           broadcast_to_participants(participants, disp.msg.payload,
                                     Subject(disp.msg.payload),
                                     ArmPriority(disp.msg.payload))
    /\ disp' = [disp EXCEPT !.pc = "idle"]
    /\ UNCHANGED <<now, lock, roomVars, queue, waiting, prune, worker,
                   otherVars>>

----------------------------------------------------------------------------
(* The channel mpsc::channel::<QueuedMessage>(MAX_QUEUE_SIZE)              *)
(* (simple.rs:112).  Sender::send waits for a free slot; the senders that  *)
(* wait are served in the order in which they started to wait.             *)

\* A channel that never refuses a slot.
HasCapacity_unbounded(q) == TRUE

HasCapacity(q) == Len(q) < MAX_QUEUE_SIZE

CanSendNow == waiting = <<>> /\ HasCapacity(queue)

\* A spawned task runs (simple.rs:311-320 and 461-470): it builds the
\* QueuedMessage, stamped with the current instant, and calls tx.send.
TaskPoll(t) ==
    /\ BagIn(t, spawned)
    /\ spawned' = spawned (-) SetToBag({t})
    /\ LET qm == QueuedMessage(t.message, t.recipient, t.priority, now)
       IN  IF CanSendNow
           THEN /\ queue' = Append(queue, qm)
                /\ UNCHANGED waiting
           ELSE /\ waiting' = Append(waiting, [owner |-> "task", msg |-> qm])
                /\ UNCHANGED queue
    /\ UNCHANGED <<now, lock, roomVars, disp, prune, worker, otherVars>>

\* A slot is free: the sender that waited longest completes its send.
WaiterEnqueue ==
    /\ waiting # <<>>
    /\ HasCapacity(queue)
    /\ queue' = Append(queue, Head(waiting).msg)
    /\ waiting' = Tail(waiting)
    /\ IF Head(waiting).owner = "prune"
       THEN prune' = [prune EXCEPT !.pc = "send", !.recipients = Tail(@)]
       ELSE UNCHANGED prune
    /\ UNCHANGED <<now, lock, roomVars, spawned, disp, worker, otherVars>>

----------------------------------------------------------------------------
(* The message processor task (simple.rs:180-210).                         *)

\* A staleness test that also skips a message of exactly the threshold age.
IsStale_inclusive(msg, at) == at - msg.timestamp >= STALE_AFTER_SECS

\* simple.rs:185  msg.timestamp.elapsed() > Duration::from_secs(30)
IsStale(msg, at) == at - msg.timestamp > STALE_AFTER_SECS

\* A receive that serves the oldest High message of the queue before the
\* others.
WorkerRecv_priority ==
    /\ worker.pc \in {"recv", "skipped"}
    /\ queue # <<>>
    /\ LET high == {i \in 1..Len(queue) : queue[i].priority = "High"}
           k == IF high = {} THEN 1
                ELSE CHOOSE i \in high : \A j \in high : i <= j
       IN  /\ queue' = SubSeq(queue, 1, k - 1) \o SubSeq(queue, k + 1, Len(queue))
           /\ worker' = [pc |-> IF IsStale(queue[k], now)
                                THEN "skipped" ELSE "sending",
                         msg |-> queue[k],
                         age |-> now - queue[k].timestamp,
                         result |-> "none"]
    /\ UNCHANGED <<now, lock, roomVars, spawned, waiting, disp, prune, otherVars>>

\* rx.recv() returns a message; when stale the loop continues with the next
\* one (position "skipped"), otherwise it is handed to sender.send_reply.
WorkerRecv ==
    /\ worker.pc \in {"recv", "skipped"}
    /\ queue # <<>>
    /\ queue' = Tail(queue)
    /\ worker' = [pc |-> IF IsStale(Head(queue), now)
                         THEN "skipped" ELSE "sending",
                  msg |-> Head(queue),
                  age |-> now - Head(queue).timestamp,
                  result |-> "none"]
    /\ UNCHANGED <<now, lock, roomVars, spawned, waiting, disp, prune, otherVars>>

\* The results send_reply can return.
SendResults == {"ok", "err"}

\* A message processor that puts a message back on the queue when its send
\* has failed.
WorkerSendDone_retry ==
    /\ worker.pc = "sending"
    /\ broadcast_count' = broadcast_count + 1
    /\ \E r \in SendResults :
         /\ worker' = [worker EXCEPT !.pc = "sleep", !.result = r]
         /\ queue' = IF r = "err" THEN Append(queue, worker.msg) ELSE queue
    /\ UNCHANGED <<now, lock, participants, history, message_count, spawned,
                   waiting, disp, prune, otherVars>>

\* A message processor that counts only the sends that returned Ok.
WorkerSendDone_okonly ==
    /\ worker.pc = "sending"
    /\ \E r \in SendResults :
         /\ worker' = [worker EXCEPT !.pc = "sleep", !.result = r]
         /\ broadcast_count' = IF r = "ok"
                               THEN broadcast_count + 1
                               ELSE broadcast_count
    /\ UNCHANGED <<now, lock, participants, history, message_count, chanVars,
                   disp, prune, otherVars>>

\* A message processor that goes back to the queue right after a send.
WorkerSendDone_nopause ==
    /\ worker.pc = "sending"
    /\ broadcast_count' = broadcast_count + 1
    /\ \E r \in SendResults :
         worker' = [worker EXCEPT !.pc = "recv", !.result = r]
    /\ UNCHANGED <<now, lock, participants, history, message_count, chanVars,
                   disp, prune, otherVars>>

\* send_reply returns, with Ok or Err: an Err is logged and nothing else;
\* then broadcast_count += 1 under the lock (simple.rs:196-205).
WorkerSendDone ==
    /\ worker.pc = "sending"
    /\ broadcast_count' = broadcast_count + 1
    /\ \E r \in SendResults :
         worker' = [worker EXCEPT !.pc = "sleep", !.result = r]
    /\ UNCHANGED <<now, lock, participants, history, message_count, chanVars, disp,
                   prune, otherVars>>

\* A pause that never ends.
WorkerWake_never ==
    /\ worker.pc = "sleep"
    /\ worker.result = "never"
    /\ UNCHANGED vars

\* simple.rs:208  the 5 ms sleep ends.
WorkerWake ==
    /\ worker.pc = "sleep"
    /\ worker' = WorkerIdle
    /\ UNCHANGED <<now, lock, roomVars, chanVars, disp, prune, otherVars>>

----------------------------------------------------------------------------
(* The pruning task (simple.rs:128-171).                                   *)

\* A tick that also takes the queued messages for the participants it
\* removes out of the queue.
PruneTick_cancelling ==
    /\ prune.pc = "idle"
    /\ LET r == prune_inactive_participants(participants, now)
           gone == {participants[u].sender_tag : u \in r.pruned}
       IN  /\ participants' = r.kept
           /\ queue' = SelectSeq(queue, LAMBDA q : q.recipient \notin gone)
           /\ \E order \in Orderings(r.pruned) :
                prune' = IF r.pruned = {}
                         THEN PruneIdle
                         ELSE [pc |-> "next", pruned |-> order,
                               recipients |-> <<>>]
    /\ UNCHANGED <<now, lock, history, message_count, broadcast_count,
                   spawned, waiting, disp, worker, otherVars>>

\* A tick that also drops the stored texts of the participants it removes.
PruneTick_purging ==
    /\ prune.pc = "idle"
    /\ LET r == prune_inactive_participants(participants, now)
           kept == {i \in 1..Len(history) : history[i].from \notin r.pruned}
       IN  /\ participants' = r.kept
           /\ history' = IF kept = {} THEN <<>> ELSE history
           /\ \E order \in Orderings(r.pruned) :
                prune' = IF r.pruned = {}
                         THEN PruneIdle
                         ELSE [pc |-> "next", pruned |-> order,
                               recipients |-> <<>>]
    /\ UNCHANGED <<now, lock, message_count, broadcast_count, chanVars,
                   disp, worker, otherVars>>

\* interval.tick() fires: prune under the lock (simple.rs:134-137).
PruneTick ==
    /\ prune.pc = "idle"
    /\ LET r == prune_inactive_participants(participants, now)
       IN  /\ participants' = r.kept
           /\ \E order \in Orderings(r.pruned) :
                prune' = IF r.pruned = {}
                         THEN PruneIdle
                         ELSE [pc |-> "next", pruned |-> order,
                               recipients |-> <<>>]
    /\ UNCHANGED <<now, lock, history, message_count, broadcast_count, chanVars,
                   disp, worker, otherVars>>

\* A recipient list that stops after the first participant.
PruneRecipients_first ==
    /\ prune.pc = "next"
    /\ \E names \in Orderings(DOMAIN participants) :
         prune' = [prune EXCEPT
                     !.pc = "send",
                     !.recipients =
                        [i \in 1..(IF Len(names) > 0 THEN 1 ELSE 0) |->
                            participants[names[i]].sender_tag]]
    /\ UNCHANGED <<now, lock, roomVars, chanVars, disp, worker, otherVars>>

\* simple.rs:149-154  the recipients of the Leave of the next pruned user:
\* the sender tags of all participants, read under the lock.
PruneRecipients ==
    /\ prune.pc = "next"
    /\ \E names \in Orderings(DOMAIN participants) :
         prune' = [prune EXCEPT
                     !.pc = "send",
                     !.recipients = [i \in 1..Len(names) |->
                                        participants[names[i]].sender_tag]]
    /\ UNCHANGED <<now, lock, roomVars, chanVars, disp, worker, otherVars>>

\* A pruning task that gives up the rest of its round when the channel has
\* no free slot.
PruneSend_abort ==
    /\ prune.pc = "send"
    /\ IF prune.recipients = <<>>
       THEN /\ prune' = IF Tail(prune.pruned) = <<>>
                        THEN PruneIdle
                        ELSE [pc |-> "next", pruned |-> Tail(prune.pruned),
                              recipients |-> <<>>]
            /\ UNCHANGED <<queue, waiting>>
       ELSE LET qm == QueuedMessage(Leave(Head(prune.pruned)),
                                    Head(prune.recipients), "High", now)
            IN  IF CanSendNow
                THEN /\ queue' = Append(queue, qm)
                     /\ prune' = [prune EXCEPT !.recipients = Tail(@)]
                     /\ UNCHANGED waiting
                ELSE /\ prune' = PruneIdle
                     /\ UNCHANGED <<queue, waiting>>
    /\ UNCHANGED <<now, lock, roomVars, spawned, disp, worker, otherVars>>

\* simple.rs:156-166  prune_tx.send(...).await for the next recipient; the
\* task waits when the channel is full.
PruneSend ==
    /\ prune.pc = "send"
    /\ IF prune.recipients = <<>>
       THEN /\ prune' = IF Tail(prune.pruned) = <<>>
                        THEN PruneIdle
                        ELSE [pc |-> "next", pruned |-> Tail(prune.pruned),
                              recipients |-> <<>>]
            /\ UNCHANGED <<queue, waiting>>
       ELSE LET qm == QueuedMessage(Leave(Head(prune.pruned)),
                                    Head(prune.recipients), "High", now)
            IN  IF CanSendNow
                THEN /\ queue' = Append(queue, qm)
                     /\ prune' = [prune EXCEPT !.recipients = Tail(@)]
                     /\ UNCHANGED waiting
                ELSE /\ waiting' = Append(waiting,
                                          [owner |-> "prune", msg |-> qm])
                     /\ prune' = [prune EXCEPT !.pc = "blocked"]
                     /\ UNCHANGED queue
    /\ UNCHANGED <<now, lock, roomVars, spawned, disp, worker, otherVars>>

----------------------------------------------------------------------------
\* Time passes.
Tick ==
    /\ now < MaxTime
    /\ now' = now + 1
    /\ UNCHANGED <<lock, roomVars, chanVars, disp, prune, worker, otherVars>>

Next ==
    \/ \E m \in Inbound : DispReceive(m)
    \/ DispJoinSync
    \/ DispTextStore
    \/ DispBroadcast
    \/ \E t \in BagToSet(spawned) : TaskPoll(t)
    \/ WaiterEnqueue
    \/ WorkerRecv
    \/ WorkerSendDone
    \/ WorkerWake
    \/ PruneTick
    \/ PruneRecipients
    \/ PruneSend
    \/ Tick

Spec == Init /\ [][Next]_vars

\* The message processor is a task of its own that the runtime keeps
\* scheduling, and send_reply returns.
WorkerFairness ==
    /\ WF_vars(WorkerRecv)
    /\ WF_vars(WorkerSendDone)
    /\ WF_vars(WorkerWake)

WorkerFairSpec == Spec /\ WorkerFairness

\* Every task of the room server keeps being scheduled and time passes; only
\* the arrival of inbound events is left to the environment.
FairSpec ==
    /\ Spec
    /\ WorkerFairness
    /\ WF_vars(DispJoinSync)
    /\ WF_vars(DispTextStore)
    /\ WF_vars(DispBroadcast)
    /\ WF_vars(\E t \in BagToSet(spawned) : TaskPoll(t))
    /\ WF_vars(WaiterEnqueue)
    /\ WF_vars(PruneTick)
    /\ WF_vars(PruneRecipients)
    /\ WF_vars(PruneSend)
    /\ WF_vars(Tick)

\* The pruning task and the message processor keep being scheduled, and a
\* sender that waits for a slot of the channel gets one that is free.
SweeperFairSpec ==
    /\ Spec
    /\ WorkerFairness
    /\ WF_vars(WaiterEnqueue)
    /\ WF_vars(PruneTick)
    /\ WF_vars(PruneRecipients)
    /\ WF_vars(PruneSend)

----------------------------------------------------------------------------
(* The registries and histories the room server can hold.                  *)

\* The registries over Users whose last_active values lie in times.  Every
\* entry is stored under its own username, as Join stores it.
Registries(times) ==
    UNION {[D -> [username : D, sender_tag : Tags, last_active : times]]
              : D \in SUBSET Users}

WellKeyed(map) == \A k \in DOMAIN map : map[k].username = k

SeqsUpTo(S, n) == UNION {[1..k -> S] : k \in 0..n}

\* Histories of at most MAX_HISTORY_SIZE texts.
Histories ==
    SeqsUpTo({HistoryItem(u, "hi", "t1") : u \in Users}, MAX_HISTORY_SIZE)

----------------------------------------------------------------------------
(* HandlerSpec: the on_messages callback handles one inbound event, from   *)
(* any registry, history and time the room can have reached.               *)

HandlerInit ==
    /\ now \in 0..MaxTime
    /\ participants \in {r \in Registries(0..now) : WellKeyed(r)}
    /\ history \in Histories
    /\ message_count = 0
    /\ broadcast_count = 0
    /\ queue = <<>>
    /\ spawned = EmptyBag
    /\ waiting = <<>>
    /\ disp = DispIdle
    /\ prune = PruneIdle
    /\ worker = WorkerIdle
    /\ events = MaxEvents - 1
    /\ tcp_history = <<>>
    /\ appended = <<>>
    /\ m_participants = EmptyMap
    /\ m_history = <<>>
    /\ m_out = MainIdle
    /\ lock = "free"
    /\ tcp = TcpIdle

HandlerNext ==
    \/ \E m \in Inbound : DispReceive(m)
    \/ DispJoinSync
    \/ DispTextStore
    \/ DispBroadcast

HandlerSpec == HandlerInit /\ [][HandlerNext]_vars

----------------------------------------------------------------------------
(* SweepSpec: one tick of the pruning task, from any registry and any      *)
(* reading of the clock (SystemTime is not monotonic: a last_active value  *)
(* can lie after the time read at the tick).                               *)

SweepInit ==
    /\ now \in 0..(PARTICIPANT_TIMEOUT_SECS + 1)
    /\ participants \in {r \in Registries(0..(PARTICIPANT_TIMEOUT_SECS + 1)) :
                            WellKeyed(r)}
    /\ history = <<>>
    /\ message_count = 0
    /\ broadcast_count = 0
    /\ queue = <<>>
    /\ spawned = EmptyBag
    /\ waiting = <<>>
    /\ disp = DispIdle
    /\ prune = PruneIdle
    /\ worker = WorkerIdle
    /\ events = 0
    /\ tcp_history = <<>>
    /\ appended = <<>>
    /\ m_participants = EmptyMap
    /\ m_history = <<>>
    /\ m_out = MainIdle
    /\ lock = "free"
    /\ tcp = TcpIdle

SweepNext == PruneTick

SweepSpec == SweepInit /\ [][SweepNext]_vars

----------------------------------------------------------------------------
(* HistSpec: appends to the history buffers of simple.rs and               *)
(* room_server.rs.                                                         *)

HistAppend(item) ==
    /\ Len(appended) < MaxAppends
    /\ appended' = Append(appended, item)
    /\ history' = add_history_item(history, item)
    /\ tcp_history' = tcp_add_history_item(tcp_history, item)
    /\ UNCHANGED <<now, lock, tcp, participants, message_count, broadcast_count,
                   chanVars, disp, prune, worker, events, m_participants,
                   m_history, m_out>>

HistNext == \E item \in HistoryItems : HistAppend(item)

HistSpec == Init /\ [][HistNext]_vars

----------------------------------------------------------------------------
(* MainSpec: the room of main.rs, create mode (main.rs:76-219).            *)

\* The address of the room itself (main.rs:78), a Recipient and not a sender
\* tag.
RoomAddress == "room"

\* main.rs:166-177 and 105-118  the StateSync payloads that can be built from
\* a history and the keys of the participants map, in any iteration order.
MainSyncPayloads(hist, parts) ==
    {StateSync(hist, names) : names \in Orderings(DOMAIN parts)}

\* A callback that sends every inbound payload back to its sender.
MainReceive_echo(m) ==
    /\ m_out' = [by |-> "handler",
                 sends |-> {[to |-> m.sender_tag, message |-> m.payload]}]
    /\ UNCHANGED <<now, lock, tcp, roomVars, chanVars, disp, prune, worker, events,
                   tcp_history, appended, m_participants, m_history>>

\* main.rs:151-187  Join: when the envelope has a sender tag the participant
\* is stored and a StateSync is sent back with send_reply.
\* main.rs:189-198  Leave.  main.rs:199-213  Text: the item is pushed on the
\* history.  StateSync and unparseable payloads are ignored.
MainReceive(m) ==
    /\ CASE m.payload.kind = "Join" /\ Usable(m.sender_tag) ->
              LET after == HashMapInsert(m_participants,
                                         m.payload.username, m.sender_tag)
              IN  /\ m_participants' = after
                  /\ \E sync \in MainSyncPayloads(m_history, after) :
                       m_out' = [by |-> "handler",
                                 sends |-> {[to |-> m.sender_tag,
                                             message |-> sync]}]
                  /\ UNCHANGED m_history
         [] m.payload.kind = "Leave" ->
              /\ m_participants' = HashMapRemove(m_participants,
                                                 m.payload.username)
              /\ m_out' = [by |-> "handler", sends |-> {}]
              /\ UNCHANGED m_history
         [] m.payload.kind = "Text" ->
              /\ Len(m_history) < MaxMainTexts
              /\ m_history' = Append(m_history,
                                  HistoryItem(m.payload.from, m.payload.content,
                                              m.payload.timestamp))
              /\ m_out' = [by |-> "handler", sends |-> {}]
              /\ UNCHANGED m_participants
         [] OTHER ->
              /\ m_out' = [by |-> "handler", sends |-> {}]
              /\ UNCHANGED <<m_participants, m_history>>
    /\ UNCHANGED <<now, lock, tcp, roomVars, chanVars, disp, prune, worker, events,
                   tcp_history, appended>>

\* A periodic sync that never skips a tick.
SyncSkips_never(parts, hist) == FALSE

\* main.rs:100  the tick is skipped when there are no participants or no
\* history.
SyncSkips(parts, hist) == DOMAIN parts = {} \/ hist = <<>>

\* main.rs:93-134  the periodic state sync task: interval.tick() fires; unless
\* the tick is skipped, one StateSync is sent with send_message to the address
\* of the room.
MainSyncTick ==
    /\ IF SyncSkips(m_participants, m_history)
       THEN m_out' = [by |-> "sync", sends |-> {}]
       ELSE \E sync \in MainSyncPayloads(m_history, m_participants) :
              m_out' = [by |-> "sync",
                        sends |-> {[to |-> RoomAddress, message |-> sync]}]
    /\ UNCHANGED <<now, lock, tcp, roomVars, chanVars, disp, prune, worker, events,
                   tcp_history, appended, m_participants, m_history>>

MainNext ==
    \/ \E m \in Inbound : MainReceive(m)
    \/ MainSyncTick

MainSpec == Init /\ [][MainNext]_vars

----------------------------------------------------------------------------
(* PruneSpec: one round of the pruning task, from the tick to the last     *)
(* Leave it queues, in a room of up to three participants with an empty    *)
(* queue.                                                                  *)

SweepUsers == Users \cup {"carol"}

RegistriesOver(users, times) ==
    UNION {[D -> [username : D, sender_tag : Tags, last_active : times]]
              : D \in SUBSET users}

PruneInit ==
    /\ now \in 0..(PARTICIPANT_TIMEOUT_SECS + 1)
    /\ participants \in
          {r \in RegistriesOver(SweepUsers, 0..(PARTICIPANT_TIMEOUT_SECS + 1)) :
              WellKeyed(r)}
    /\ history = <<>>
    /\ message_count = 0
    /\ broadcast_count = 0
    /\ queue = <<>>
    /\ spawned = EmptyBag
    /\ waiting = <<>>
    /\ disp = DispIdle
    /\ prune = PruneIdle
    /\ worker = WorkerIdle
    /\ events = 0
    /\ tcp_history = <<>>
    /\ appended = <<>>
    /\ m_participants = EmptyMap
    /\ m_history = <<>>
    /\ m_out = MainIdle
    /\ lock = "free"
    /\ tcp = TcpIdle

PruneNext ==
    \/ PruneTick
    \/ PruneRecipients
    \/ PruneSend

PruneSpec == PruneInit /\ [][PruneNext]_vars

----------------------------------------------------------------------------
(* InboundSyncSpec: the rooms of simple.rs and of main.rs receive a        *)
(* StateSync, from any registry and history they can hold.                 *)

\* main.rs:19  participants: username -> sender tag.
MainRegistries == UNION {[D -> Tags] : D \in SUBSET Users}

InboundSyncs ==
    {m \in Inbound : m.payload.kind = "StateSync"}

InboundSyncInit ==
    /\ now = 0
    /\ participants \in {r \in Registries({0}) : WellKeyed(r)}
    /\ history \in Histories
    /\ message_count = 0
    /\ broadcast_count = 0
    /\ queue = <<>>
    /\ spawned = EmptyBag
    /\ waiting = <<>>
    /\ disp = DispIdle
    /\ prune = PruneIdle
    /\ worker = WorkerIdle
    /\ events = MaxEvents - 1
    /\ tcp_history = <<>>
    /\ appended = <<>>
    /\ m_participants \in MainRegistries
    /\ m_history \in Histories
    /\ m_out = MainIdle
    /\ lock = "free"
    /\ tcp = TcpIdle

InboundSyncNext ==
    \/ \E m \in InboundSyncs : DispReceive(m)
    \/ \E m \in InboundSyncs : MainReceive(m)

InboundSyncSpec == InboundSyncInit /\ [][InboundSyncNext]_vars

----------------------------------------------------------------------------
(* FanoutSpec: the fan-outs of the room in a room of up to three           *)
(* participants whose queue is empty or already holds MAX_QUEUE_SIZE       *)
(* deliveries: one round of the pruning task when some participant has     *)
(* timed out, the handling of one more inbound event when none has.        *)

\* A text of a user that is not registered: it is stored and broadcast to
\* every participant (simple.rs:358-393).
BacklogText == Text("dave", "hi", "t1")

\* The tail of the broadcasts of MAX_QUEUE_SIZE such texts: the deliveries
\* to one participant are still in the channel.
Backlog(tag, at) ==
    [i \in 1..MAX_QUEUE_SIZE |-> QueuedMessage(BacklogText, tag, "Low", at)]

FanoutInit ==
    /\ now = PARTICIPANT_TIMEOUT_SECS
    /\ participants \in
          {r \in RegistriesOver(SweepUsers, {0, PARTICIPANT_TIMEOUT_SECS}) :
              WellKeyed(r)}
    /\ \/ /\ queue = <<>>
          /\ history = <<>>
          /\ message_count = Cardinality(DOMAIN participants)
          /\ broadcast_count = 0
       \/ /\ \E k \in DOMAIN participants :
                queue = Backlog(participants[k].sender_tag, now)
          /\ history = [i \in 1..MAX_HISTORY_SIZE |->
                           HistoryItem("dave", "hi", "t1")]
          /\ message_count = Cardinality(DOMAIN participants) + MAX_QUEUE_SIZE
          /\ broadcast_count =
                MAX_QUEUE_SIZE * (Cardinality(DOMAIN participants) - 1)
    /\ spawned = EmptyBag
    /\ waiting = <<>>
    /\ disp = DispIdle
    /\ prune = PruneIdle
    /\ worker = WorkerIdle
    /\ events = IF \A k \in DOMAIN participants :
                       is_active(participants[k], now)
                THEN MaxEvents - 1
                ELSE MaxEvents
    /\ tcp_history = <<>>
    /\ appended = <<>>
    /\ m_participants = EmptyMap
    /\ m_history = <<>>
    /\ m_out = MainIdle
    /\ lock = "free"
    /\ tcp = TcpIdle

FanoutNext ==
    \/ \E m \in Inbound : DispReceive(m)
    \/ DispJoinSync
    \/ DispTextStore
    \/ DispBroadcast
    \/ \E t \in BagToSet(spawned) : TaskPoll(t)
    \/ WaiterEnqueue
    \/ WorkerRecv
    \/ WorkerSendDone
    \/ WorkerWake
    \/ PruneTick
    \/ PruneRecipients
    \/ PruneSend

FanoutSpec == FanoutInit /\ [][FanoutNext]_vars

----------------------------------------------------------------------------
(* LockSpec: the same room with the scopes of the state lock spelled out.  *)
(* A block "{ let state_lock = state.lock().unwrap(); ... }" is one step   *)
(* that takes the guard and runs the body, followed by the step that drops *)
(* the guard at the closing brace; a task runs its statements in order, so *)
(* the statement after a block runs once the guard is dropped.  The blocks *)
(* of the on_messages callback contain no await and nothing but the state  *)
(* access: each is a single step that needs the lock free.                 *)

LockTasks == {"prune", "worker"}

\* The closing brace of a locked block (simple.rs:137, 154, 205): the guard
\* is dropped.
LkUnlock(task) ==
    /\ lock = task
    /\ lock' = "free"
    /\ UNCHANGED <<now, roomVars, chanVars, disp, prune, worker, otherVars>>

\* simple.rs:134-136  the pruning task takes the lock and prunes.
LkPruneTick ==
    /\ prune.pc = "idle"
    /\ lock = "free"
    /\ lock' = "prune"
    /\ LET r == prune_inactive_participants(participants, now)
       IN  /\ participants' = r.kept
           /\ \E order \in Orderings(r.pruned) :
                prune' = IF r.pruned = {}
                         THEN PruneIdle
                         ELSE [pc |-> "next", pruned |-> order,
                               recipients |-> <<>>]
    /\ UNCHANGED <<now, history, message_count, broadcast_count, chanVars,
                   disp, worker, otherVars>>

\* simple.rs:149-153  the pruning task takes the lock and collects the
\* recipients.
LkPruneRecipients ==
    /\ prune.pc = "next"
    /\ lock = "free"
    /\ lock' = "prune"
    /\ \E names \in Orderings(DOMAIN participants) :
         prune' = [prune EXCEPT
                     !.pc = "send",
                     !.recipients = [i \in 1..Len(names) |->
                                        participants[names[i]].sender_tag]]
    /\ UNCHANGED <<now, roomVars, chanVars, disp, worker, otherVars>>

\* A send loop that starts inside the block that collected the recipients.
LkPruneSend_locked == PruneSend

\* simple.rs:156-166  the send loop, after the block of 149-154.
LkPruneSend ==
    /\ lock # "prune"
    /\ PruneSend

\* simple.rs:183  rx.recv(), after the block of 202-205 and the sleep.
LkWorkerRecv ==
    /\ lock # "worker"
    /\ WorkerRecv

\* simple.rs:196-199  send_reply returns, with Ok or Err.
LkWorkerSendReturns ==
    /\ worker.pc = "sending"
    /\ \E r \in SendResults :
         worker' = [worker EXCEPT !.pc = "count", !.result = r]
    /\ UNCHANGED <<now, lock, roomVars, chanVars, disp, prune, otherVars>>

\* simple.rs:202-204  the message processor takes the lock and counts.
LkWorkerCount ==
    /\ worker.pc = "count"
    /\ lock = "free"
    /\ lock' = "worker"
    /\ broadcast_count' = broadcast_count + 1
    /\ worker' = [worker EXCEPT !.pc = "sleep"]
    /\ UNCHANGED <<now, participants, history, message_count, chanVars, disp,
                   prune, otherVars>>

\* simple.rs:208  the sleep, after the block of 202-205, ends.
LkWorkerWake ==
    /\ lock # "worker"
    /\ WorkerWake

\* The callback is called with an event; an event that passes the parse and
\* the sender-tag check and is no StateSync enters the first block of its
\* arm (simple.rs:283, 337, 363).
LkDispReceive(m) ==
    /\ Parses(m.payload) /\ Usable(m.sender_tag)
         /\ m.payload.kind # "StateSync" => lock = "free"
    /\ DispReceive(m)

\* simple.rs:295-301
LkDispJoinSync ==
    /\ lock = "free"
    /\ DispJoinSync

\* simple.rs:371-380
LkDispTextStore ==
    /\ lock = "free"
    /\ DispTextStore

\* simple.rs:440-446
LkDispBroadcast ==
    /\ lock = "free"
    /\ DispBroadcast

LockNext ==
    \/ \E m \in Inbound : LkDispReceive(m)
    \/ LkDispJoinSync
    \/ LkDispTextStore
    \/ LkDispBroadcast
    \/ \E t \in BagToSet(spawned) : TaskPoll(t)
    \/ WaiterEnqueue
    \/ LkWorkerRecv
    \/ LkWorkerSendReturns
    \/ LkWorkerCount
    \/ LkWorkerWake
    \/ LkPruneTick
    \/ LkPruneRecipients
    \/ LkPruneSend
    \/ \E task \in LockTasks : LkUnlock(task)

LockSpec == FanoutInit /\ [][LockNext]_vars

----------------------------------------------------------------------------
(* TcpSpec: the room server of room_server.rs (RoomServer::run).  Every    *)
(* accepted connection has a connection task, which registers the          *)
(* connection and then runs the read loop, and a writer task, which        *)
(* forwards the messages sent to the connection's channel to the socket     *)
(* and cleans up after its loop.                                           *)

\* The frames the clients of the TCP room send.
TcpMessages ==
    {Join(u) : u \in Users} \cup {Leave(u) : u \in Users}
    \cup {Text(u, "hi", "t1") : u \in Users}
    \cup {StateSync(<<>>, <<>>), Unparseable}

TcpFrame == <<now, lock, roomVars, chanVars, disp, prune, worker, events,
              appended, m_participants, m_history, m_out>>

\* room_server.rs:256-270  RoomServer::broadcast: sender.send(message) for
\* every connection of the map other than the excluded one.
tcp_broadcast(inbox, connections, message, exclude) ==
    [c \in TcpConns |->
        IF c \in connections \ exclude
        THEN Append(inbox[c], message)
        ELSE inbox[c]]

\* room_server.rs:80-115  listener.accept() returns a stream: the connection
\* task creates the channel, stores its sender under a fresh connection id
\* and spawns the writer task.
TcpAccept(c) ==
    /\ tcp.reader[c] = "none"
    /\ tcp' = [tcp EXCEPT !.connections = @ \cup {c},
                          !.reader[c] = "open",
                          !.writer[c] = "recv"]
    /\ UNCHANGED <<TcpFrame, tcp_history>>

\* room_server.rs:155-235  the read loop reads a frame and handles it under
\* the lock.
TcpRead(c, message) ==
    /\ tcp.reader[c] = "open"
    /\ tcp.reads < MaxTcpReads
    /\ CASE message.kind = "Join" ->
              LET parts == [u \in DOMAIN tcp.participants
                                     \cup {message.username} |->
                               IF u = message.username
                               THEN c
                               ELSE tcp.participants[u]]
                  joined == tcp_broadcast(tcp.inbox, tcp.connections,
                                          message, {})
              IN  /\ \E names \in Orderings(DOMAIN parts) :
                        tcp' = [tcp EXCEPT
                                  !.participants = parts,
                                  !.inbox =
                                     IF c \in tcp.connections
                                     THEN [joined EXCEPT ![c] =
                                             Append(@, StateSync(tcp_history,
                                                                 names))]
                                     ELSE joined,
                                  !.reads = @ + 1]
                  /\ UNCHANGED tcp_history
         [] message.kind = "Leave" ->
              /\ tcp' = [tcp EXCEPT
                           !.participants =
                              [u \in DOMAIN @ \ {message.username} |-> @[u]],
                           !.inbox = tcp_broadcast(tcp.inbox, tcp.connections,
                                                   message, {}),
                           !.reads = @ + 1]
              /\ UNCHANGED tcp_history
         [] message.kind = "Text" ->
              /\ tcp_history' = tcp_add_history_item(tcp_history,
                                   HistoryItem(message.from, message.content,
                                               message.timestamp))
              /\ tcp' = [tcp EXCEPT
                           !.inbox = tcp_broadcast(tcp.inbox, tcp.connections,
                                                   message, {}),
                           !.reads = @ + 1]
         [] OTHER ->
              /\ tcp' = [tcp EXCEPT !.reads = @ + 1]
              /\ UNCHANGED tcp_history
    /\ UNCHANGED TcpFrame

\* room_server.rs:155 and 237-240  framed_read.next() returns None or an
\* error: the client has closed the connection; the read loop and the
\* connection task end.
TcpClose(c) ==
    /\ tcp.reader[c] = "open"
    /\ tcp' = [tcp EXCEPT !.reader[c] = "closed"]
    /\ UNCHANGED <<TcpFrame, tcp_history>>

\* room_server.rs:116-127  the writer task receives a message from the
\* channel and writes it to the socket; it leaves the loop when the write
\* fails.  (receiver.recv() returns None only when the sender stored in
\* connections is dropped, which only the clean-up below does.)
TcpWrite(c) ==
    /\ tcp.writer[c] = "recv"
    /\ tcp.inbox[c] # <<>>
    /\ \E r \in SendResults :
         tcp' = [tcp EXCEPT
                   !.inbox[c] = Tail(@),
                   !.writer[c] = IF r = "ok" THEN "recv" ELSE "cleanup"]
    /\ UNCHANGED <<TcpFrame, tcp_history>>

\* room_server.rs:129-152  after the loop, under the lock: the connection is
\* removed, and every participant registered with it is removed and a Leave
\* for it broadcast to the other connections.
TcpCleanup(c) ==
    /\ tcp.writer[c] = "cleanup"
    /\ LET gone == {u \in DOMAIN tcp.participants : tcp.participants[u] = c}
           conns == tcp.connections \ {c}
       IN  \E order \in Orderings(gone) :
             LET RECURSIVE Notify(_, _)
                 Notify(inbox, i) ==
                    IF i > Len(order)
                    THEN inbox
                    ELSE Notify(tcp_broadcast(inbox, conns,
                                              Leave(order[i]), {c}), i + 1)
             IN  tcp' = [tcp EXCEPT
                           !.connections = conns,
                           !.participants =
                              [u \in DOMAIN @ \ gone |-> @[u]],
                           !.inbox = Notify(tcp.inbox, 1),
                           !.writer[c] = "done"]
    /\ UNCHANGED <<TcpFrame, tcp_history>>

TcpNext ==
    \/ \E c \in TcpConns : TcpAccept(c)
    \/ \E c \in TcpConns, message \in TcpMessages : TcpRead(c, message)
    \/ \E c \in TcpConns : TcpClose(c)
    \/ \E c \in TcpConns : TcpWrite(c)
    \/ \E c \in TcpConns : TcpCleanup(c)

TcpSpec == Init /\ [][TcpNext]_vars

\* The writer tasks keep being scheduled; what the clients send, and when
\* they connect and disconnect, is left to them.
TcpFairSpec ==
    /\ TcpSpec
    /\ \A c \in TcpConns : WF_vars(TcpWrite(c)) /\ WF_vars(TcpCleanup(c))

----------------------------------------------------------------------------
(* Properties.                                                             *)

\* C1: the message processor hands a received message to send_reply only
\* when its age at the moment it was received is at most the staleness
\* threshold, and skips it exactly when that age is above the threshold; the
\* age it decides on is the time since the message was stamped.
C1_StaleNeverSent ==
    /\ worker.pc \in {"sending", "sleep"} =>
          worker.age <= STALE_AFTER_SECS
    /\ worker.pc = "skipped" => worker.age > STALE_AFTER_SECS
    /\ worker.pc # "recv" =>
          /\ worker.age >= 0
          /\ worker.age <= now - worker.msg.timestamp

\* A message older than the threshold has been received and skipped.
C1_Witness ==
    /\ worker.pc = "skipped"
    /\ worker.age = STALE_AFTER_SECS + 1

\* C2 (as claimed): a producer that finds the delivery queue full never waits
\* for space.
C2_FullIsRejected == waiting = <<>>

\* C3: the delivery queue never holds more than MAX_QUEUE_SIZE messages.
C3_QueueBounded == Len(queue) <= MAX_QUEUE_SIZE

\* The queue is full while a further send has been attempted.
C3_Witness ==
    /\ Len(queue) = MAX_QUEUE_SIZE
    /\ waiting # <<>>

\* C4 (as claimed): the deliveries held by the room server, queued or
\* created and not yet queued, never number more than MAX_QUEUE_SIZE.
C4_HeldBounded ==
    Len(queue) + Len(waiting) + BagCardinality(spawned) <= MAX_QUEUE_SIZE

\* The deliveries a step of broadcast_to_participants creates.
NewTasks == spawned' (-) spawned

\* C5 (as claimed): a broadcast that excludes a registered username creates
\* no delivery addressed to the handle registered for that username.
C5_NeverOwnHandle ==
    [][DispBroadcast =>
         LET U == Subject(disp.msg.payload)
         IN  U \in DOMAIN participants =>
               \A t \in BagToSet(NewTasks) :
                  t.recipient # participants[U].sender_tag]_vars

\* C5 (amended): a broadcast that excludes username U creates exactly one
\* delivery per participant registered under another username, addressed to
\* that participant's handle, and none for the entry of U.
C5_ExcludesByUsername ==
    [][DispBroadcast =>
         LET U == Subject(disp.msg.payload)
             rest == DOMAIN participants \ {U}
         IN  /\ BagCardinality(NewTasks) = Cardinality(rest)
             /\ \A tag \in Tags \cup {NoTag} :
                  CopiesIn([message |-> disp.msg.payload, recipient |-> tag,
                            priority |-> ArmPriority(disp.msg.payload)],
                           NewTasks)
                  = Cardinality({k \in rest :
                                    participants[k].sender_tag = tag})]_vars

\* A Text of a registered author has been broadcast in a room of two
\* participants with different handles: one delivery, not to the author.
C5_Witness ==
    /\ disp.pc = "idle"
    /\ disp.msg.payload.kind = "Text"
    /\ disp.old # NoEntry
    /\ Cardinality(DOMAIN participants) = Cardinality(Users)
    /\ BagCardinality(spawned) = Cardinality(Users) - 1
    /\ \A t \in BagToSet(spawned) : t.recipient # disp.old.sender_tag

LastN(s, n) == IF Len(s) >= n THEN SubSeq(s, Len(s) - n + 1, Len(s)) ELSE s

\* C6: after M appends a history buffer of capacity N holds the last N
\* appended items in call order when M >= N (so exactly N items), and all M
\* items in call order when M < N; for the buffers of simple.rs and of
\* room_server.rs.
C6_HistoryIsLastN ==
    /\ history = LastN(appended, MAX_HISTORY_SIZE)
    /\ tcp_history = LastN(appended, MAX_HISTORY_ITEMS)
    /\ Len(appended) >= MAX_HISTORY_SIZE => Len(history) = MAX_HISTORY_SIZE
    /\ Len(appended) >= MAX_HISTORY_ITEMS =>
          Len(tcp_history) = MAX_HISTORY_ITEMS

\* More items than the capacity have been appended.
C6_Witness ==
    /\ Len(appended) > MAX_HISTORY_SIZE
    /\ Len(appended) > MAX_HISTORY_ITEMS
    /\ Len(history) = MAX_HISTORY_SIZE
    /\ history[1] # appended[1]

\* C7 (as claimed): the history of the main.rs room never holds more than
\* the capacity of 100 items (MAX_HISTORY_SIZE here).
C7_MainHistoryBounded == Len(m_history) <= MAX_HISTORY_SIZE

\* C8: a sweep removes and returns exactly the participants whose last
\* activity lies at least the timeout in the past, and leaves every other
\* participant with its handle and timestamp unchanged.
C8_SweepExact ==
    [][PruneTick =>
         LET stale == {u \in DOMAIN participants :
                          now - participants[u].last_active
                             >= PARTICIPANT_TIMEOUT_SECS}
         IN  /\ DOMAIN participants' = DOMAIN participants \ stale
             /\ Range(prune'.pruned) = stale
             /\ Len(prune'.pruned) = Cardinality(stale)
             /\ \A u \in DOMAIN participants' :
                  participants'[u] = participants[u]]_vars

\* A sweep has removed a participant and kept one that was one clock unit
\* short of the timeout.
C8_Witness ==
    /\ prune.pc = "next"
    /\ Len(prune.pruned) > 0
    /\ \E u \in DOMAIN participants :
         now - participants[u].last_active = PARTICIPANT_TIMEOUT_SECS - 1

\* C9: every registry entry is stored under its own username, so a username
\* has at most one entry; right after a Join of U is accepted the one entry
\* of U holds the handle of that Join and the current time.
C9_OneEntryPerUsername ==
    /\ WellKeyed(participants)
    /\ disp.pc = "join_sync" =>
          LET u == disp.msg.payload.username
          IN  /\ u \in DOMAIN participants
              /\ participants[u] = Participant(u, disp.msg.sender_tag, now)

\* A Join of a username that was registered with another handle, at an
\* earlier time, has been accepted.
C9_Witness ==
    /\ disp.pc = "join_sync"
    /\ disp.old # NoEntry
    /\ disp.old.sender_tag # disp.msg.sender_tag
    /\ disp.old.last_active < now
    /\ participants[disp.msg.payload.username].sender_tag
          = disp.msg.sender_tag

\* C10: handling a Join whose envelope carries no sender tag changes neither
\* the registry, the history, the message counter nor the deliveries queued
\* or on their way to the queue.
C10_JoinWithoutTagDropped ==
    [][(\E u \in Users :
           DispReceive([payload |-> Join(u), sender_tag |-> NoTag]))
         => UNCHANGED <<participants, history, message_count, queue,
                        spawned, waiting>>]_vars

\* A Join without a sender tag has been handled.
C10_Witness ==
    /\ disp.pc = "idle"
    /\ disp.msg.payload.kind = "Join"
    /\ disp.msg.sender_tag = NoTag
    /\ events = MaxEvents

\* The number of deliveries of a message to a handle among a bag of enqueue
\* tasks, whatever their priority.
Deliveries(bag, message, tag) ==
    LET S == {t \in BagToSet(bag) : t.message = message /\ t.recipient = tag}
    IN  BagCardinality([t \in S |-> bag[t]])

\* The number of participants of a registry, other than username, that are
\* registered with a handle.
HoldersOf(map, tag, username) ==
    Cardinality({k \in DOMAIN map \ {username} : map[k].sender_tag = tag})

\* C11: handling an accepted Join of U with handle h creates one StateSync
\* delivery, addressed to h, whose history is the history of the room in
\* insertion order and whose participant list names every registered
\* username once, U included, as registered after the Join was stored.
C11_SyncAfterUpsert ==
    [][DispJoinSync =>
         LET U == disp.msg.payload.username
             h == disp.msg.sender_tag
         IN  /\ U \in DOMAIN participants
             /\ participants[U].sender_tag = h
             /\ BagCardinality(NewTasks) = 1
             /\ \A t \in BagToSet(NewTasks) :
                  /\ t.recipient = h
                  /\ t.message.kind = "StateSync"
                  /\ t.message.history = history
                  /\ U \in Range(t.message.participants)
                  /\ Range(t.message.participants) = DOMAIN participants
                  /\ Len(t.message.participants)
                        = Cardinality(DOMAIN participants)]_vars

\* alice has joined an empty room: the StateSync for her handle has an empty
\* history and the participant list <<alice>>.
C11_Witness ==
    /\ disp.pc = "broadcast"
    /\ disp.msg.payload = Join("alice")
    /\ disp.old = NoEntry
    /\ DOMAIN participants = {"alice"}
    /\ history = <<>>
    /\ spawned = SetToBag({[message |-> StateSync(<<>>, <<"alice">>),
                            recipient |-> disp.msg.sender_tag,
                            priority |-> "Medium"]})

\* The state in which the callback has finished handling an accepted event
\* of a kind.
Handled(kind) ==
    /\ disp.pc = "idle"
    /\ disp.msg.payload.kind = kind
    /\ disp.msg.sender_tag # NoTag

\* C12 (as claimed): when an accepted Join of U with handle h has been
\* handled, the Join has been passed on once for every other participant, no
\* Join delivery is addressed to the handle registered to U, and there is
\* exactly one StateSync delivery, addressed to h.
C12_JoinNeverToJoinerHandle ==
    Handled("Join") =>
       LET U == disp.msg.payload.username
           h == disp.msg.sender_tag
       IN  /\ \A k \in DOMAIN participants \ {U} :
                Deliveries(spawned, disp.msg.payload,
                           participants[k].sender_tag) >= 1
           /\ Deliveries(spawned, disp.msg.payload,
                         participants[U].sender_tag) = 0
           /\ BagCardinality(spawned)
                 = Cardinality(DOMAIN participants \ {U}) + 1
           /\ \E t \in BagToSet(spawned) :
                t.message.kind = "StateSync" /\ t.recipient = h

\* C12 (amended): when an accepted Join of U with handle h has been handled,
\* there is one Join delivery per participant registered under another
\* username, addressed to that participant's handle, none on account of the
\* entry of U, and exactly one StateSync delivery, addressed to h.
C12_JoinFanout ==
    Handled("Join") =>
       LET U == disp.msg.payload.username
           h == disp.msg.sender_tag
           syncs == {t \in BagToSet(spawned) : t.message.kind = "StateSync"}
       IN  /\ \A tag \in Tags \cup {NoTag} :
                Deliveries(spawned, disp.msg.payload, tag)
                   = HoldersOf(participants, tag, U)
           /\ BagCardinality(spawned)
                 = Cardinality(DOMAIN participants \ {U}) + 1
           /\ Cardinality(syncs) = 1
           /\ \A t \in syncs : t.recipient = h /\ CopiesIn(t, spawned) = 1

\* A Join has been handled in a room where the other participant has another
\* handle: one Join delivery to that handle, one StateSync to the joiner.
C12_Witness ==
    /\ Handled("Join")
    /\ Cardinality(DOMAIN participants) = Cardinality(Users)
    /\ \A k \in DOMAIN participants \ {disp.msg.payload.username} :
          /\ participants[k].sender_tag # disp.msg.sender_tag
          /\ Deliveries(spawned, disp.msg.payload,
                        participants[k].sender_tag) = 1
    /\ BagCardinality(spawned) = Cardinality(Users)

C15_TaglessStillProcessed ==
    (/\ disp.pc = "idle"
     /\ disp.msg.payload.kind \in {"Leave", "Text"}
     /\ disp.msg.sender_tag = NoTag) =>
       /\ message_count = 1
       /\ disp.msg.payload.kind = "Leave" =>
             disp.msg.payload.username \notin DOMAIN participants
       /\ disp.msg.payload.kind = "Text" =>
             /\ history # <<>>
             /\ history[Len(history)].from = disp.msg.payload.from

\* C16: handling a payload that does not parse changes neither the registry,
\* the history, the message counter, the broadcast counter nor the deliveries
\* queued or on their way to the queue.
C16_UnparseableChangesNothing ==
    [][(\E tag \in Tags \cup {NoTag} :
           DispReceive([payload |-> Unparseable, sender_tag |-> tag]))
         => UNCHANGED <<participants, history, message_count, broadcast_count,
                        queue, spawned, waiting>>]_vars

\* A payload that does not parse, in an envelope with a sender tag, has been
\* handled in a room with participants and history.
C16_Witness ==
    /\ disp.pc = "idle"
    /\ disp.msg.payload = Unparseable
    /\ disp.msg.sender_tag \in Tags
    /\ events = MaxEvents
    /\ DOMAIN participants # {}
    /\ history # <<>>

\* C17: a StateSync received by the room of simple.rs or by the room of
\* main.rs changes neither the registry, the history nor the counters of
\* that room, creates no delivery and sends nothing.
C17_InboundSyncDiscarded ==
    [][/\ (\E m \in InboundSyncs : DispReceive(m)) =>
            UNCHANGED <<participants, history, message_count, broadcast_count,
                        queue, spawned, waiting>>
       /\ (\E m \in InboundSyncs : MainReceive(m)) =>
            /\ UNCHANGED <<m_participants, m_history>>
            /\ m_out'.sends = {}]_vars

\* Both rooms, with participants registered, have received a StateSync.
C17_Witness ==
    /\ disp.pc = "idle"
    /\ disp.msg.payload.kind = "StateSync"
    /\ disp.msg.sender_tag \in Tags
    /\ m_out.by = "handler"
    /\ DOMAIN participants # {}
    /\ DOMAIN m_participants # {}

\* The number of messages of a queue that carry a payload to a handle.
Queued(q, message, tag) ==
    Cardinality({i \in 1..Len(q) :
                    q[i].message = message /\ q[i].recipient = tag})

\* C18: a tick of the pruning task removes exactly the participants whose
\* last activity lies at least the timeout in the past, so none that was
\* active more recently; and when the task is done with a removed username
\* the queue holds one Leave of it for every participant left in the
\* registry, addressed to that participant's handle, and none for anyone
\* else.
C18_TickRemovesAndNotifies ==
    [][/\ PruneTick =>
            LET stale == {u \in DOMAIN participants :
                             now - participants[u].last_active
                                >= PARTICIPANT_TIMEOUT_SECS}
            IN  /\ DOMAIN participants' = DOMAIN participants \ stale
                /\ Range(prune'.pruned) = stale
                /\ \A u \in DOMAIN participants :
                     now - participants[u].last_active
                        < PARTICIPANT_TIMEOUT_SECS
                     => u \in DOMAIN participants'
       /\ (PruneSend /\ prune.recipients = <<>>) =>
            LET U == Head(prune.pruned)
            IN  /\ U \notin DOMAIN participants
                /\ \A tag \in Tags \cup {NoTag} :
                     Queued(queue, Leave(U), tag)
                        = Cardinality({k \in DOMAIN participants :
                                          participants[k].sender_tag = tag})]_vars

\* The pruning task has removed one participant of three and queued a Leave
\* of it for each of the two that are left.
C18_Witness ==
    /\ prune.pc = "idle"
    /\ Cardinality(DOMAIN participants) = 2
    /\ Len(queue) = 2
    /\ queue[1].message.kind = "Leave"
    /\ queue[1].message = queue[2].message
    /\ queue[1].message.username \notin DOMAIN participants
    /\ \A k \in DOMAIN participants :
          Queued(queue, queue[1].message, participants[k].sender_tag) >= 1

\* C19 (as claimed): a tick of the periodic state sync task of main.rs with
\* participants and history present sends, to the handle of every participant,
\* a StateSync built from the current history and participant names.
C19_SyncReachesParticipants ==
    [][(MainSyncTick /\ DOMAIN m_participants # {} /\ m_history # <<>>) =>
         \A u \in DOMAIN m_participants :
            \E s \in m_out'.sends :
               /\ s.to = m_participants[u]
               /\ s.message.kind = "StateSync"
               /\ s.message.history = m_history
               /\ Range(s.message.participants) = DOMAIN m_participants]_vars

\* C20: a tick of the periodic state sync task of main.rs that finds no
\* participants or no history sends nothing and leaves participants and
\* history as they were.
C20_EmptyTickIsSilent ==
    [][(MainSyncTick /\ (DOMAIN m_participants = {} \/ m_history = <<>>)) =>
         /\ m_out'.sends = {}
         /\ UNCHANGED <<m_participants, m_history>>]_vars

\* The periodic task has ticked with participants registered and no history,
\* and has sent nothing.
C20_Witness ==
    /\ m_out.by = "sync"
    /\ m_out.sends = {}
    /\ DOMAIN m_participants # {}
    /\ m_history = <<>>

\* C22 (as claimed): the deliveries of the callback enter the queue in the
\* order in which it created them; so while the StateSync of a Join has not
\* yet entered the queue, no delivery of that Join (created after it) has.
C22_SyncEntersBeforeJoin ==
    \A i \in 1..Len(queue) :
       queue[i].message.kind = "Join" =>
          LET U == queue[i].message.username
          IN  ~ \E t \in BagToSet(spawned) :
                  /\ t.message.kind = "StateSync"
                  /\ U \in DOMAIN participants
                  /\ t.recipient = participants[U].sender_tag
                  /\ U \in Range(t.message.participants)

\* C23: the message processor receives the message at the head of the queue
\* and the queue only grows at its end, so messages are handed to the
\* transport in the order in which they entered the queue, whatever their
\* priority.
C23_WorkerIsFifo ==
    [][/\ WorkerRecv =>
            /\ worker'.msg = Head(queue)
            /\ queue' = Tail(queue)
       /\ queue' # queue =>
            \/ queue # <<>> /\ queue' = Tail(queue)
            \/ /\ Len(queue') = Len(queue) + 1
               /\ SubSeq(queue', 1, Len(queue)) = queue]_vars

\* A Medium or Low message is being sent while a High message that entered
\* the queue after it is waiting at the head of the queue.
C23_Witness ==
    /\ worker.pc = "sending"
    /\ worker.msg.priority \in {"Medium", "Low"}
    /\ queue # <<>>
    /\ Head(queue).priority = "High"

\* The priority of a payload: High for Join and Leave, Medium for StateSync,
\* Low for Text.
PriorityOf(payload) ==
    CASE payload.kind \in {"Join", "Leave"} -> "High"
      [] payload.kind = "StateSync" -> "Medium"
      [] payload.kind = "Text" -> "Low"
      [] OTHER -> "None"

\* C24: every message in the queue, and every message whose sender waits for
\* a slot of the queue, carries the priority of its payload.
C24_PriorityMatchesKind ==
    /\ \A i \in 1..Len(queue) :
          queue[i].priority = PriorityOf(queue[i].message)
    /\ \A i \in 1..Len(waiting) :
          waiting[i].msg.priority = PriorityOf(waiting[i].msg.message)

\* The queue holds a Leave queued by the pruning task together with a
\* message of another priority.
C24_Witness ==
    /\ prune.pc = "send"
    /\ prune.recipients = <<>>
    /\ \E i, j \in 1..Len(queue) :
          /\ queue[i].message = Leave(Head(prune.pruned))
          /\ queue[i].priority = "High"
          /\ queue[j].priority \in {"Medium", "Low"}

\* C25: when send_reply has returned, with success or with failure, the
\* message is neither put back on the queue nor handed to a task that would
\* queue it, and the message processor goes on to its pause; it starts a send
\* only with a message it has just taken from the head of the queue.
C25_NoRetry ==
    [][/\ WorkerSendDone =>
            /\ UNCHANGED <<queue, spawned, waiting>>
            /\ worker'.pc = "sleep"
            /\ worker'.msg = worker.msg
       /\ (worker'.pc = "sending" /\ worker.pc # "sending") =>
            /\ queue # <<>>
            /\ worker'.msg = Head(queue)
            /\ queue' = Tail(queue)]_vars

\* A send has failed while another message waits in the queue.
C25_Witness ==
    /\ worker.pc = "sleep"
    /\ worker.result = "err"
    /\ queue # <<>>
    /\ Head(queue) # worker.msg

\* C27 (as claimed): when the pruning task reads the recipients of the Leave
\* of a pruned username U, and when it queues that Leave, U has no entry in
\* the registry.
C27_PrunedStaysOut ==
    [][(PruneRecipients \/ (PruneSend /\ prune.recipients # <<>>)) =>
         Head(prune.pruned) \notin DOMAIN participants]_vars

\* C28 (as claimed): while the callback is between two locked blocks of one
\* event (after the upsert of a Join and before its snapshot, after the
\* last-active refresh of a Text and before its history append), no other
\* task takes the state lock; in particular the message processor does not
\* take it to count a send.
C28_EventIsAtomic ==
    [][disp.pc \in {"join_sync", "text_store"} => ~WorkerSendDone]_vars

\* A StateSync for a handle has been created and is on its way to the queue
\* or in it.
SyncPending(tag) ==
    \/ \E t \in BagToSet(spawned) :
          t.message.kind = "StateSync" /\ t.recipient = tag
    \/ \E i \in 1..Len(waiting) :
          waiting[i].msg.message.kind = "StateSync"
             /\ waiting[i].msg.recipient = tag
    \/ \E i \in 1..Len(queue) :
          queue[i].message.kind = "StateSync" /\ queue[i].recipient = tag

\* Every StateSync task is created by the Join arm, for the handle the Join
\* came with: no other step of the room creates one.
SyncOnlyAtJoin ==
    [][\A t \in BagToSet(spawned') :
          t.message.kind = "StateSync"
             /\ CopiesIn(t, spawned') > CopiesIn(t, spawned)
          => /\ disp.pc = "join_sync"
             /\ t.recipient = disp.msg.sender_tag]_vars

C30_QueueIsDrained ==
    \A n \in 1..MAX_QUEUE_SIZE :
       (Len(queue) = n)
       ~> (Len(queue) = n - 1 /\ worker.pc \in {"sending", "skipped"})

\* The queue has been drained: a message has been sent and the last one
\* received was skipped as stale.
C30_Witness ==
    /\ worker.pc = "skipped"
    /\ broadcast_count > 0
    /\ queue = <<>>

C29_NoLockAcrossSend ==
    /\ worker.pc = "sending" => lock # "worker"
    /\ prune.pc = "blocked" => lock # "prune"
    /\ (\E i \in 1..Len(waiting) : waiting[i].owner = "prune") =>
          lock # "prune"

\* The pruning task waits for a slot of the full queue while the message
\* processor, its send done, holds the lock to count it.
C29_Witness ==
    /\ prune.pc = "blocked"
    /\ Len(queue) = MAX_QUEUE_SIZE
    /\ worker.pc = "sleep"
    /\ lock = "worker"

\* The participant registered under a username has been silent for the
\* timeout or longer.
TimedOut(u) ==
    /\ u \in DOMAIN participants
    /\ now - participants[u].last_active >= PARTICIPANT_TIMEOUT_SECS

\* C31: a participant that has been silent for the timeout is eventually
\* out of the registry, unless a Join or a Text of its username is received
\* and refreshes it, whatever the state of the delivery queue and of the
\* pruning task's current round.
C31_SilentIsRemoved ==
    \A u \in Users :
       TimedOut(u) ~> (u \notin DOMAIN participants \/ ~TimedOut(u))

\* The pruning task has removed a participant at a tick that found the
\* delivery queue full.
C31_Witness ==
    /\ prune.pc = "next"
    /\ prune.pruned # <<>>
    /\ Len(queue) = MAX_QUEUE_SIZE
    /\ waiting # <<>>

\* C32: the handling of a Text of from creates and removes no registry entry
\* and leaves the entry of every username other than from as it was; it
\* leaves the username and the handle of from's entry, if there is one, as
\* they were and sets its last_active to the time of handling (when the Text
\* is dropped for lack of a sender tag, the entry is left as it was); the
\* later steps of the Text arm do not touch the registry.
C32_TextOnlyRefreshesAuthor ==
    [][/\ (\E m \in Inbound : m.payload.kind = "Text" /\ DispReceive(m)) =>
            LET from == disp'.msg.payload.from
            IN  /\ DOMAIN participants' = DOMAIN participants
                /\ \A k \in DOMAIN participants \ {from} :
                     participants'[k] = participants[k]
                /\ from \in DOMAIN participants =>
                     /\ participants'[from].username
                           = participants[from].username
                     /\ participants'[from].sender_tag
                           = participants[from].sender_tag
                     /\ participants'[from].last_active =
                           IF disp'.msg.sender_tag # NoTag
                           THEN now
                           ELSE participants[from].last_active
       /\ (disp.msg.payload.kind = "Text"
              /\ (DispTextStore \/ DispBroadcast)) =>
            UNCHANGED participants]_vars

\* A Text of a registered author has been handled in a room of two whose
\* entries were both older than the time of handling: the author's entry is
\* refreshed, the other is not.
C32_Witness ==
    /\ Handled("Text")
    /\ disp.old # NoEntry
    /\ disp.old.last_active < now
    /\ participants[disp.msg.payload.from].last_active = now
    /\ \E k \in DOMAIN participants :
          /\ k # disp.msg.payload.from
          /\ participants[k].last_active < now

\* C33: the history changes only in the store step of the Text arm, and then
\* by the append of the event's item alone: the items it held stay as they
\* were and in their order, less the oldest when the history was full.  The
\* Join and Leave arms, the pruning task, the enqueue tasks and the message
\* processor leave it unchanged.
C33_OnlyTextChangesHistory ==
    [][history' # history =>
          /\ disp.pc = "text_store"
          /\ disp.msg.payload.kind = "Text"
          /\ disp'.pc = "broadcast"
          /\ history' = LastN(Append(history,
                                     [from |-> disp.msg.payload.from,
                                      content |-> disp.msg.payload.content,
                                      timestamp |-> disp.msg.payload.timestamp]),
                              MAX_HISTORY_SIZE)]_vars

\* The history holds a text while the pruning task has removed a participant
\* and the message processor has made a send.
C33_Witness ==
    /\ history # <<>>
    /\ prune.pruned # <<>>
    /\ broadcast_count > 0

\* What the message counter does in a step, when a Leave counts if its
\* envelope carries one of the given sender tags: it never decreases; it
\* grows by one when a Join with a sender tag or such a Leave is received
\* and when the Text arm stores its item; every other step leaves it as it
\* is: the receipt of an unparseable payload, of a StateSync, of a Join
\* without sender tag and of a Text, the enqueue tasks, the pruning task, the
\* message processor and the clock.
CounterCounts(leaveTags) ==
    LET Counted(m) ==
           \/ m.payload.kind = "Join" /\ m.sender_tag # NoTag
           \/ m.payload.kind = "Leave" /\ m.sender_tag \in leaveTags
    IN  /\ message_count' >= message_count
        /\ \A m \in Inbound :
              DispReceive(m) =>
                 message_count' = IF Counted(m)
                                  THEN message_count + 1
                                  ELSE message_count
        /\ DispTextStore => message_count' = message_count + 1
        /\ (events' = events /\ disp.pc # "text_store") =>
              message_count' = message_count

\* C34 (as claimed): the message counter grows by exactly one for each
\* accepted Join, each Leave, whatever its envelope, and each Text handled,
\* never decreases, and is unchanged by everything else.
C34_CounterCountsEvents ==
    [][CounterCounts(Tags \cup {NoTag})]_vars

\* The same with the Leaves counted that the callback lets through: those
\* whose envelope carries a sender tag.
CounterCountsTagged ==
    [][CounterCounts(Tags)]_vars

\* C35: a message handed to send_reply is followed, whether the send returns
\* Ok or Err, by the pause of the message processor, and nothing is received
\* from the queue from the start of the send to the end of the pause; after
\* a message skipped as stale the message processor receives the next one
\* without a pause.
C35_PauseAfterEverySend ==
    [][/\ worker.pc = "sending" =>
            /\ worker'.pc \in {"sending", "sleep"}
            /\ worker'.pc = "sleep" => worker'.result \in SendResults
       /\ worker.pc \in {"sending", "sleep"} =>
            /\ Len(queue') >= Len(queue)
            /\ worker'.pc # "recv" => worker'.msg = worker.msg
       /\ worker.pc = "sleep" => worker'.pc \in {"sleep", "recv"}
       /\ worker.pc = "skipped" => worker'.pc \in {"skipped", "sending"}
       /\ worker'.pc = "sleep" => worker.pc \in {"sending", "sleep"}]_vars

\* The message processor pauses after a send that failed, with the next
\* message waiting in the queue.
C35_Witness ==
    /\ worker.pc = "sleep"
    /\ worker.result = "err"
    /\ queue # <<>>

\* C36: a step that removes a participant from the registry (the Leave arm
\* or a tick of the pruning task) leaves the queue, the senders waiting for
\* it and the enqueue tasks as they are; and a message leaves the queue only
\* at its head, received by the message processor, which hands it to
\* send_reply unless it is stale, whether or not its recipient is the handle
\* of a participant.
C36_RemovalKeepsQueue ==
    [][/\ (\E u \in DOMAIN participants : u \notin DOMAIN participants') =>
            UNCHANGED <<queue, spawned, waiting>>
       /\ Len(queue') >= Len(queue) =>
            SubSeq(queue', 1, Len(queue)) = queue
       /\ Len(queue') < Len(queue) =>
            /\ queue' = Tail(queue)
            /\ worker'.msg = Head(queue)
            /\ worker'.pc = IF now - Head(queue).timestamp > STALE_AFTER_SECS
                            THEN "skipped"
                            ELSE "sending"]_vars

\* A Leave has removed the last participant and a message for the handle it
\* was registered with is still in the queue.
C36_Witness ==
    /\ Handled("Leave")
    /\ disp.old # NoEntry
    /\ participants = EmptyMap
    /\ \E i \in 1..Len(queue) : queue[i].recipient = disp.old.sender_tag

\* C37: what a Leave of U does to the registry does not depend on the sender
\* tag it arrives with: for every sender tag, the one registered for U or
\* another, the registry afterwards is the registry before less the entry
\* of U (the same registry when U has none), the message counter has grown
\* by one, and the Leave is then passed on once for every participant of
\* that registry, to its handle.
C37_LeaveIgnoresHandle ==
    [][/\ \A m \in Inbound :
            (/\ m.payload.kind = "Leave"
             /\ m.sender_tag \in Tags
             /\ DispReceive(m)) =>
               /\ participants' =
                     [k \in DOMAIN participants \ {m.payload.username} |->
                         participants[k]]
               /\ message_count' = message_count + 1
               /\ disp'.pc = "broadcast"
       /\ (DispBroadcast /\ disp.msg.payload.kind = "Leave") =>
            /\ \A tag \in Tags \cup {NoTag} :
                 Deliveries(NewTasks, disp.msg.payload, tag)
                    = Cardinality({k \in DOMAIN participants :
                                      participants[k].sender_tag = tag})
            /\ BagCardinality(NewTasks) = Cardinality(DOMAIN participants)
      ]_vars

\* A Leave of a registered user that came with a sender tag other than the
\* one registered for that user has been handled: the entry is gone and the
\* other participant has been sent the Leave.
C37_Witness ==
    /\ Handled("Leave")
    /\ disp.old # NoEntry
    /\ disp.old.sender_tag # disp.msg.sender_tag
    /\ disp.msg.payload.username \notin DOMAIN participants
    /\ BagCardinality(spawned) = 1

C39_ClosedIsCleanedUp ==
    \A c \in TcpConns :
       (tcp.reader[c] = "closed")
       ~> (/\ c \notin tcp.connections
           /\ \A u \in DOMAIN tcp.participants : tcp.participants[u] # c)

\* C40: the broadcast counter grows by exactly one each time
\* a send_reply of the message processor returns, with Ok or with Err, and
\* is changed by no other step: not by the receipt of a message that is
\* skipped as stale or of one that is about to be sent, not by the callback,
\* the enqueue tasks or the pruning task.  So it never decreases and counts
\* the send attempts that have returned.
C40_CounterCountsSends ==
    [][/\ (worker.pc = "sending" /\ worker'.pc # "sending") =>
            /\ broadcast_count' = broadcast_count + 1
            /\ worker'.result \in SendResults
       /\ ~(worker.pc = "sending" /\ worker'.pc # "sending") =>
            broadcast_count' = broadcast_count
       /\ worker'.pc = "skipped" => broadcast_count' = broadcast_count
       /\ broadcast_count' >= broadcast_count]_vars

\* The second send attempt of the room has failed and has been counted.
C40_Witness ==
    /\ worker.pc = "sleep"
    /\ worker.result = "err"
    /\ broadcast_count = 2

====
